---------------------------- MODULE Spec2Model ----------------------------
(***************************************************************************)
(* Instagram wine/food content generator (src/app.py): the keyword-based   *)
(* instruction parser of PromptInterface and the JSON history file of      *)
(* InstagramContentGenerator.                                              *)
(*                                                                         *)
(* Text is modelled as Python models it: a str is a sequence of Unicode    *)
(* code points (naturals), a file is a sequence of bytes.  Every literal   *)
(* of the source is written as its code points, with the text in a comment *)
(* beside it.                                                              *)
(***************************************************************************)
EXTENDS Integers, Sequences, FiniteSets, TLC

VARIABLES
    file,             \* output_dir / "content_history.json": [exists, bytes]
    outcome,          \* what the last public call returned or raised
    input,            \* the instruction text handed to _parse_instruction
    parsed,           \* what _parse_instruction returned for `input`
    session_context,  \* PromptInterface.session_context
    appended,         \* history: the (topic, content) of every completed append
    origin,           \* history: the file as it was when the program started
    calls             \* the _save_content_history calls running side by side

vars == <<file, outcome, input, parsed, session_context, appended, origin, calls>>

(***************************************************************************)
(* Bounds of the model.                                                    *)
(***************************************************************************)
\* the longest instruction explored by SpecParse, in words
MaxWords == 3
\* the number of appends explored by Spec
MaxAppends == 3

(***************************************************************************)
(* Python str primitives over code points.                                 *)
(***************************************************************************)

\* str.isspace() of one character, as str.split() with no argument uses it
IsSpace(c) ==
    \/ c \in 9..13
    \/ c \in 28..32
    \/ c \in {133, 160, 5760, 8232, 8233, 8239, 8287, 12288}
    \/ c \in 8192..8202

\* str.lower() of one character: ASCII and Latin-1 capitals have a lower-case
\* partner 32 code points above; the other characters used here have none
LowerChar(c) ==
    IF c \in 65..90 \/ (c \in 192..222 /\ c # 215) THEN c + 32 ELSE c

\* str.lower()
Lower(s) == [i \in 1..Len(s) |-> LowerChar(s[i])]

\* `sub in s` for two str
In(sub, s) ==
    \E i \in 0..(Len(s) - Len(sub)) : SubSeq(s, i + 1, i + Len(sub)) = sub

\* any(k in s for k in keywords)
AnyIn(keywords, s) == \E j \in 1..Len(keywords) : In(keywords[j], s)

\* the least index j >= i with s[j] whitespace (or not), Len(s) + 1 if none
NextSpace(s, i, space) ==
    CHOOSE j \in i..(Len(s) + 1) :
        /\ j = Len(s) + 1 \/ IsSpace(s[j]) = space
        /\ \A k \in i..(j - 1) : IsSpace(s[k]) # space

RECURSIVE SplitFrom(_, _, _)
\* str.split() with no argument, from s[i] on: skip the whitespace, take the
\* word up to the next whitespace, go on behind it
SplitFrom(s, i, acc) ==
    LET a == NextSpace(s, i, FALSE)
        b == NextSpace(s, a, TRUE)
    IN  IF a > Len(s) THEN acc
        ELSE SplitFrom(s, b, Append(acc, SubSeq(s, a, b - 1)))

\* str.split(): the maximal runs of non-whitespace, in order
Split(s) == SplitFrom(s, 1, <<>>)

RECURSIVE Join(_, _)
\* sep.join(words)
Join(sep, words) ==
    IF words = <<>> THEN <<>>
    ELSE IF Len(words) = 1 THEN words[1]
    ELSE words[1] \o sep \o Join(sep, Tail(words))

\* x in list
InList(x, list) == \E j \in 1..Len(list) : list[j] = x

(***************************************************************************)
(* PromptInterface: the instruction parser.                                *)
(***************************************************************************)

\* 'create', 'generate', 'write', 'make', 'build', 'post', 'about',
\* 'for', 'instagram', 'content', 'caption', 'image', 'prompt'
instruction_words ==
    << <<99, 114, 101, 97, 116, 101>>,
       <<103, 101, 110, 101, 114, 97, 116, 101>>,
       <<119, 114, 105, 116, 101>>,
       <<109, 97, 107, 101>>,
       <<98, 117, 105, 108, 100>>,
       <<112, 111, 115, 116>>,
       <<97, 98, 111, 117, 116>>,
       <<102, 111, 114>>,
       <<105, 110, 115, 116, 97, 103, 114, 97, 109>>,
       <<99, 111, 110, 116, 101, 110, 116>>,
       <<99, 97, 112, 116, 105, 111, 110>>,
       <<105, 109, 97, 103, 101>>,
       <<112, 114, 111, 109, 112, 116>> >>

RECURSIVE TopicWords(_, _)
\* the loop of _extract_topic: the words whose lower-case is no instruction word
TopicWords(words, topic_words) ==
    IF words = <<>> THEN topic_words
    ELSE TopicWords(Tail(words),
                    IF ~InList(Lower(Head(words)), instruction_words)
                    THEN Append(topic_words, Head(words))
                    ELSE topic_words)

\* a mutant of _extract_topic: no fallback to the full prompt
ExtractTopicNoFallback(prompt) ==
    Join(<<32>>, TopicWords(Split(prompt), <<>>))

\* a mutant of _extract_topic: the instruction words are compared case-sensitively
ExtractTopicCaseSensitive(prompt) ==
    LET kept == SelectSeq(Split(prompt), LAMBDA w : ~InList(w, instruction_words))
    IN  IF kept = <<>> THEN prompt ELSE Join(<<32>>, kept)

\* a mutant of _extract_topic: only a leading instruction word is removed
ExtractTopicFirstWordOnly(prompt) ==
    LET words == Split(prompt)
    IN  IF words = <<>> THEN prompt
        ELSE IF ~InList(Lower(Head(words)), instruction_words)
             THEN Join(<<32>>, words)
        ELSE IF Tail(words) = <<>> THEN prompt
        ELSE Join(<<32>>, Tail(words))

_extract_topic(prompt) ==
    LET topic_words == TopicWords(Split(prompt), <<>>)
    IN  IF topic_words = <<>> THEN prompt ELSE Join(<<32>>, topic_words)

\* the dict of _extract_style, in insertion order:
\*   casual:       'casual', 'relaxed', 'laid-back', 'informal'
\*   professional: 'professional', 'formal', 'business', 'corporate'
\*   fun:          'fun', 'playful', 'energetic', 'vibrant', 'exciting'
\*   elegant:      'elegant', 'sophisticated', 'classy', 'refined'
\*   educational:  'educational', 'informative', 'teaching', 'learning'
style_keywords ==
    << [style |-> "casual", keywords |->
          << <<99, 97, 115, 117, 97, 108>>,
             <<114, 101, 108, 97, 120, 101, 100>>,
             <<108, 97, 105, 100, 45, 98, 97, 99, 107>>,
             <<105, 110, 102, 111, 114, 109, 97, 108>> >>],
       [style |-> "professional", keywords |->
          << <<112, 114, 111, 102, 101, 115, 115, 105, 111, 110, 97, 108>>,
             <<102, 111, 114, 109, 97, 108>>,
             <<98, 117, 115, 105, 110, 101, 115, 115>>,
             <<99, 111, 114, 112, 111, 114, 97, 116, 101>> >>],
       [style |-> "fun", keywords |->
          << <<102, 117, 110>>,
             <<112, 108, 97, 121, 102, 117, 108>>,
             <<101, 110, 101, 114, 103, 101, 116, 105, 99>>,
             <<118, 105, 98, 114, 97, 110, 116>>,
             <<101, 120, 99, 105, 116, 105, 110, 103>> >>],
       [style |-> "elegant", keywords |->
          << <<101, 108, 101, 103, 97, 110, 116>>,
             <<115, 111, 112, 104, 105, 115, 116, 105, 99, 97, 116, 101, 100>>,
             <<99, 108, 97, 115, 115, 121>>,
             <<114, 101, 102, 105, 110, 101, 100>> >>],
       [style |-> "educational", keywords |->
          << <<101, 100, 117, 99, 97, 116, 105, 111, 110, 97, 108>>,
             <<105, 110, 102, 111, 114, 109, 97, 116, 105, 118, 101>>,
             <<116, 101, 97, 99, 104, 105, 110, 103>>,
             <<108, 101, 97, 114, 110, 105, 110, 103>> >>] >>

RECURSIVE StyleLoop(_, _)
\* the for loop of _extract_style from table entry k on
StyleLoop(prompt_lower, k) ==
    IF k > Len(style_keywords) THEN "conversational"
    ELSE IF AnyIn(style_keywords[k].keywords, prompt_lower)
         THEN style_keywords[k].style
         ELSE StyleLoop(prompt_lower, k + 1)

RECURSIVE StyleLoopLast(_, _, _)
StyleLoopLast(prompt_lower, k, found) ==
    IF k > Len(style_keywords) THEN found
    ELSE StyleLoopLast(prompt_lower, k + 1,
                       IF AnyIn(style_keywords[k].keywords, prompt_lower)
                       THEN style_keywords[k].style ELSE found)

\* a mutant of _extract_style: the loop has no early return, the last match wins
ExtractStyleLastWins(prompt_lower) ==
    StyleLoopLast(prompt_lower, 1, "conversational")

_extract_style(prompt_lower) == StyleLoop(prompt_lower, 1)

\* the dict of _extract_requirements, in insertion order:
\*   no_emojis:    'no emoji', 'without emoji', 'no emojis'
\*   include_cta:  'call to action', 'cta', 'include cta'
\*   short_format: 'short', 'brief', 'concise', 'quick'
\*   long_format:  'detailed', 'long', 'comprehensive', 'in-depth'
\*   hashtags:     'hashtag', 'tags', '#'
\*   story_format: 'story', 'narrative', 'storytelling'
requirement_patterns ==
    << [req |-> "no_emojis", patterns |->
          << <<110, 111, 32, 101, 109, 111, 106, 105>>,
             <<119, 105, 116, 104, 111, 117, 116, 32, 101, 109, 111, 106, 105>>,
             <<110, 111, 32, 101, 109, 111, 106, 105, 115>> >>],
       [req |-> "include_cta", patterns |->
          << <<99, 97, 108, 108, 32, 116, 111, 32, 97, 99, 116, 105, 111, 110>>,
             <<99, 116, 97>>,
             <<105, 110, 99, 108, 117, 100, 101, 32, 99, 116, 97>> >>],
       [req |-> "short_format", patterns |->
          << <<115, 104, 111, 114, 116>>,
             <<98, 114, 105, 101, 102>>,
             <<99, 111, 110, 99, 105, 115, 101>>,
             <<113, 117, 105, 99, 107>> >>],
       [req |-> "long_format", patterns |->
          << <<100, 101, 116, 97, 105, 108, 101, 100>>,
             <<108, 111, 110, 103>>,
             <<99, 111, 109, 112, 114, 101, 104, 101, 110, 115, 105, 118, 101>>,
             <<105, 110, 45, 100, 101, 112, 116, 104>> >>],
       [req |-> "hashtags", patterns |->
          << <<104, 97, 115, 104, 116, 97, 103>>,
             <<116, 97, 103, 115>>,
             <<35>> >>],
       [req |-> "story_format", patterns |->
          << <<115, 116, 111, 114, 121>>,
             <<110, 97, 114, 114, 97, 116, 105, 118, 101>>,
             <<115, 116, 111, 114, 121, 116, 101, 108, 108, 105, 110, 103>> >>] >>

RECURSIVE RequirementLoop(_, _, _)
\* the for loop of _extract_requirements from table entry k on
RequirementLoop(prompt_lower, k, requirements) ==
    IF k > Len(requirement_patterns) THEN requirements
    ELSE RequirementLoop(prompt_lower, k + 1,
                         IF AnyIn(requirement_patterns[k].patterns, prompt_lower)
                         THEN Append(requirements, requirement_patterns[k].req)
                         ELSE requirements)

\* a mutant of _extract_requirements: it returns at the first tag that matches
ExtractRequirementsFirstOnly(prompt_lower) ==
    LET all == RequirementLoop(prompt_lower, 1, <<>>)
    IN  IF all = <<>> THEN <<>> ELSE <<all[1]>>

_extract_requirements(prompt_lower) == RequirementLoop(prompt_lower, 1, <<>>)

\* 'no save'
NoSave == <<110, 111, 32, 115, 97, 118, 101>>
\* 'don\'t save'
DontSave == <<100, 111, 110, 39, 116, 32, 115, 97, 118, 101>>

\* a mutant of _parse_instruction: the prompt is not lower-cased
ParseInstructionNoLower(prompt) ==
    [ topic        |-> _extract_topic(prompt),
      style        |-> _extract_style(prompt),
      requirements |-> _extract_requirements(prompt),
      save_file    |-> ~In(NoSave, prompt) /\ ~In(DontSave, prompt) ]

\* a mutant of _parse_instruction: the parser looks at the history store and
\* asks for a save only while there is no history file
ParseInstructionLooksAtStore(prompt) ==
    [ topic        |-> _extract_topic(prompt),
      style        |-> _extract_style(Lower(prompt)),
      requirements |-> _extract_requirements(Lower(prompt)),
      save_file    |-> /\ ~In(NoSave, Lower(prompt))
                       /\ ~In(DontSave, Lower(prompt))
                       /\ ~file.exists ]

_parse_instruction(prompt) ==
    LET prompt_lower == Lower(prompt)
    IN  [ topic        |-> _extract_topic(prompt),
          style        |-> _extract_style(prompt_lower),
          requirements |-> _extract_requirements(prompt_lower),
          save_file    |-> ~In(NoSave, prompt_lower) /\ ~In(DontSave, prompt_lower) ]

(***************************************************************************)
(* Text files: open(..., encoding='utf-8').  Writing encodes the str as    *)
(* UTF-8, reading decodes the bytes strictly.  The texts written here hold *)
(* no surrogate code point, the one kind of str that UTF-8 cannot encode.  *)
(***************************************************************************)

\* the UTF-8 bytes of one code point
Utf8Char(c) ==
    IF c < 128 THEN <<c>>
    ELSE IF c < 2048 THEN <<192 + (c \div 64), 128 + (c % 64)>>
    ELSE IF c < 65536
         THEN <<224 + (c \div 4096), 128 + ((c \div 64) % 64), 128 + (c % 64)>>
         ELSE <<240 + (c \div 262144), 128 + ((c \div 4096) % 64),
                128 + ((c \div 64) % 64), 128 + (c % 64)>>

RECURSIVE Utf8Range(_, _, _)
\* the UTF-8 bytes of s[lo..hi], the two halves encoded apart
Utf8Range(s, lo, hi) ==
    IF lo > hi THEN <<>>
    ELSE IF lo = hi THEN Utf8Char(s[lo])
    ELSE LET mid == (lo + hi) \div 2
         IN  Utf8Range(s, lo, mid) \o Utf8Range(s, mid + 1, hi)

\* str.encode('utf-8')
Utf8Encode(s) == Utf8Range(s, 1, Len(s))

\* byte i of b, or -1 past its end
ByteAt(b, i) == IF i \in 1..Len(b) THEN b[i] ELSE 0 - 1

IsCont(x) == x \in 128..191

\* the number of bytes of the character whose first byte is b[i], 0 if b[i..]
\* starts no well-formed character (a stray or missing continuation byte, an
\* overlong form, an encoded surrogate, a value above U+10FFFF)
Utf8Width(b, i) ==
    LET b0 == b[i]
        b1 == ByteAt(b, i + 1)
        b2 == ByteAt(b, i + 2)
        b3 == ByteAt(b, i + 3)
    IN  IF b0 < 128 THEN 1
        ELSE IF b0 \in 194..223 /\ IsCont(b1) THEN 2
        ELSE IF /\ b0 \in 224..239 /\ IsCont(b1) /\ IsCont(b2)
                /\ (b0 = 224 => b1 >= 160) /\ (b0 = 237 => b1 <= 159)
        THEN 3
        ELSE IF /\ b0 \in 240..244 /\ IsCont(b1) /\ IsCont(b2) /\ IsCont(b3)
                /\ (b0 = 240 => b1 >= 144) /\ (b0 = 244 => b1 <= 143)
        THEN 4
        ELSE 0

\* the code point of the well-formed character that starts at b[i]
Utf8Point(b, i) ==
    LET w == Utf8Width(b, i)
    IN  IF w = 1 THEN b[i]
        ELSE IF w = 2 THEN (b[i] - 192) * 64 + (b[i + 1] - 128)
        ELSE IF w = 3
        THEN (b[i] - 224) * 4096 + (b[i + 1] - 128) * 64 + (b[i + 2] - 128)
        ELSE (b[i] - 240) * 262144 + (b[i + 1] - 128) * 4096
             + (b[i + 2] - 128) * 64 + (b[i + 3] - 128)

\* bytes.decode('utf-8'), strict: [ok, text]; ok is FALSE where Python raises
\* UnicodeDecodeError.  The characters start at the bytes that are no
\* continuation byte; the bytes are well formed when the first byte starts a
\* character and every character ends where the next one starts.
Utf8Decode(b) ==
    LET starts == SelectSeq([i \in 1..Len(b) |-> i], LAMBDA i : ~IsCont(b[i]))
        next(k) == IF k < Len(starts) THEN starts[k + 1] ELSE Len(b) + 1
        wellFormed ==
            /\ Len(b) > 0 => (Len(starts) > 0 /\ starts[1] = 1)
            /\ \A k \in 1..Len(starts) :
                   Utf8Width(b, starts[k]) = next(k) - starts[k]
    IN  IF wellFormed
        THEN [ok |-> TRUE, text |-> [k \in 1..Len(starts) |-> Utf8Point(b, starts[k])]]
        ELSE [ok |-> FALSE, text |-> <<>>]

(***************************************************************************)
(* Python values that json handles, tagged: None, bool, int, the float     *)
(* constants, str, list and dict (a dict is its items in insertion order). *)
(***************************************************************************)
PyNone == [t |-> "null", v |-> <<>>]
PyBool(b) == [t |-> "bool", v |-> b]
PyInt(n) == [t |-> "int", v |-> n]
PyFloatConst(name) == [t |-> "float", v |-> name]
PyStr(s) == [t |-> "str", v |-> s]
PyList(items) == [t |-> "list", v |-> items]
PyDict(items) == [t |-> "dict", v |-> items]
Item(k, v) == [k |-> k, v |-> v]

\* d[k] for a dict d that has the key k
DictGet(d, k) == LET j == CHOOSE j \in 1..Len(d.v) : d.v[j].k = k IN d.v[j].v

\* k in d
DictHas(d, k) == \E j \in 1..Len(d.v) : d.v[j].k = k

\* d[k] = v: a key already present keeps its place and takes the new value
DictPut(items, k, v) ==
    IF \E j \in 1..Len(items) : items[j].k = k
    THEN [j \in 1..Len(items) |-> IF items[j].k = k THEN Item(k, v) ELSE items[j]]
    ELSE Append(items, Item(k, v))

(***************************************************************************)
(* json.dump(obj, f, indent=2, ensure_ascii=False)                         *)
(***************************************************************************)
HexDigit(n) == IF n < 10 THEN 48 + n ELSE 87 + n

\* json.encoder.ESCAPE_DCT: the replacement of one character of a str
EscapeChar(c) ==
    IF c = 34 THEN <<92, 34>>
    ELSE IF c = 92 THEN <<92, 92>>
    ELSE IF c = 10 THEN <<92, 110>>
    ELSE IF c = 13 THEN <<92, 114>>
    ELSE IF c = 9 THEN <<92, 116>>
    ELSE IF c = 8 THEN <<92, 98>>
    ELSE IF c = 12 THEN <<92, 102>>
    ELSE IF c < 32 THEN <<92, 117, 48, 48, HexDigit(c \div 16), HexDigit(c % 16)>>
    ELSE <<c>>

RECURSIVE EscapeRange(_, _, _)
\* s[lo..hi] with every character replaced, the two halves done apart
EscapeRange(s, lo, hi) ==
    IF lo > hi THEN <<>>
    ELSE IF lo = hi THEN EscapeChar(s[lo])
    ELSE LET mid == (lo + hi) \div 2
         IN  EscapeRange(s, lo, mid) \o EscapeRange(s, mid + 1, hi)

\* ESCAPE.sub(replace, s)
EscapeStr(s) == EscapeRange(s, 1, Len(s))

\* a mutant of py_encode_basestring: the characters are written unescaped
EncodeBasestringRaw(s) == <<34>> \o s \o <<34>>

\* json.encoder.py_encode_basestring (ensure_ascii=False): non-ASCII stays literal
py_encode_basestring(s) == <<34>> \o EscapeStr(s) \o <<34>>

RECURSIVE IntDigits(_)
IntDigits(n) ==
    IF n < 10 THEN <<48 + n>> ELSE IntDigits(n \div 10) \o <<48 + (n % 10)>>

\* int.__repr__
IntRepr(n) == IF n < 0 THEN <<45>> \o IntDigits(0 - n) ELSE IntDigits(n)

\* '\n' + ' ' * (indent * level), indent = 2
NewlineIndent(level) == <<10>> \o [i \in 1..(2 * level) |-> 32]

RECURSIVE JsonEncode(_, _)
RECURSIVE EncodeItems(_, _, _, _)
\* the elements of a list, or the items of a dict, from index j on
EncodeItems(v, j, level, acc) ==
    IF j > Len(v.v) THEN acc
    ELSE LET one == IF v.t = "list"
                    THEN JsonEncode(v.v[j], level)
                    ELSE py_encode_basestring(v.v[j].k) \o <<58, 32>>
                         \o JsonEncode(v.v[j].v, level)
             sep == IF j = 1 THEN <<>> ELSE <<44>> \o NewlineIndent(level)
         IN  EncodeItems(v, j + 1, level, acc \o sep \o one)

\* json.encoder._make_iterencode, the chunks joined: v written at nesting `level`
JsonEncode(v, level) ==
    IF v.t = "null" THEN <<110, 117, 108, 108>>
    ELSE IF v.t = "bool"
    THEN IF v.v THEN <<116, 114, 117, 101>> ELSE <<102, 97, 108, 115, 101>>
    ELSE IF v.t = "int" THEN IntRepr(v.v)
    ELSE IF v.t = "float" THEN v.v
    ELSE IF v.t = "str" THEN py_encode_basestring(v.v)
    ELSE IF v.v = <<>> THEN IF v.t = "list" THEN <<91, 93>> ELSE <<123, 125>>
    ELSE (IF v.t = "list" THEN <<91>> ELSE <<123>>)
         \o NewlineIndent(level + 1)
         \o EncodeItems(v, 1, level + 1, <<>>)
         \o NewlineIndent(level)
         \o (IF v.t = "list" THEN <<93>> ELSE <<125>>)

\* the bytes json.dump(obj, f, indent=2, ensure_ascii=False) leaves in f
json_dump(obj) == Utf8Encode(JsonEncode(obj, 0))

(***************************************************************************)
(* json.load(f): json.decoder.JSONDecoder.decode on the text of the file.  *)
(* A scan returns [ok, val, pos]: ok is FALSE where Python raises          *)
(* json.JSONDecodeError, pos is the index after the value.  Numbers are    *)
(* scanned as integers (no fraction, no exponent).                         *)
(***************************************************************************)

\* character i of s, or -1 past its end
CharAt(s, i) == IF i \in 1..Len(s) THEN s[i] ELSE 0 - 1

Fail == [ok |-> FALSE, val |-> PyNone, pos |-> 0]
Done(val, pos) == [ok |-> TRUE, val |-> val, pos |-> pos]

\* s[i:i+len(lit)] == lit
StartsAt(s, i, lit) ==
    i + Len(lit) - 1 <= Len(s) /\ SubSeq(s, i, i + Len(lit) - 1) = lit

RECURSIVE SkipWS(_, _)
\* json.decoder.WHITESPACE.match(s, i).end(): past ' ', '\t', '\n', '\r'
SkipWS(s, i) == IF CharAt(s, i) \in {32, 9, 10, 13} THEN SkipWS(s, i + 1) ELSE i

IsDigit(c) == c \in 48..57
IsHex(c) == c \in 48..57 \/ c \in 97..102 \/ c \in 65..70
HexVal(c) == IF c \in 48..57 THEN c - 48 ELSE IF c \in 97..102 THEN c - 87 ELSE c - 55

\* json.decoder.BACKSLASH: the character a one-letter escape stands for, or -1
Unescape(e) ==
    IF e = 34 THEN 34 ELSE IF e = 92 THEN 92 ELSE IF e = 47 THEN 47
    ELSE IF e = 98 THEN 8 ELSE IF e = 102 THEN 12 ELSE IF e = 110 THEN 10
    ELSE IF e = 114 THEN 13 ELSE IF e = 116 THEN 9 ELSE 0 - 1

\* a character that ends a chunk of a string: '"', '\\' or a control character
IsTerminator(c) == c = 34 \/ c = 92 \/ c < 32

\* json.decoder.STRINGCHUNK: the index of the terminator that follows the
\* longest run of ordinary characters from s[i] on, Len(s) + 1 if there is none
ChunkEnd(s, i) ==
    CHOOSE j \in i..(Len(s) + 1) :
        /\ j = Len(s) + 1 \/ IsTerminator(s[j])
        /\ \A k \in i..(j - 1) : ~IsTerminator(s[k])

RECURSIVE py_scanstring(_, _, _)
\* json.decoder.py_scanstring (strict): s[i] is the character after the opening
\* quote or after the last escape; acc holds the characters decoded so far
py_scanstring(s, i, acc) ==
    LET j == ChunkEnd(s, i)
        done == acc \o SubSeq(s, i, j - 1)
        c == CharAt(s, j)
        e == CharAt(s, j + 1)
    IN  IF c = 34 THEN Done(PyStr(done), j + 1)
        ELSE IF c # 92 THEN Fail
        ELSE IF e = 117
        THEN IF \A k \in 2..5 : IsHex(CharAt(s, j + k))
             THEN py_scanstring(s, j + 6,
                      Append(done, HexVal(s[j + 2]) * 4096 + HexVal(s[j + 3]) * 256
                                   + HexVal(s[j + 4]) * 16 + HexVal(s[j + 5])))
             ELSE Fail
        ELSE IF Unescape(e) >= 0
        THEN py_scanstring(s, j + 2, Append(done, Unescape(e)))
        ELSE Fail

RECURSIVE ScanDigits(_, _, _)
ScanDigits(s, i, n) ==
    IF IsDigit(CharAt(s, i)) THEN ScanDigits(s, i + 1, n * 10 + (s[i] - 48))
    ELSE Done(PyInt(n), i)

\* json.scanner NUMBER_RE, integer part: -?(?:0|[1-9]\d*)
ScanNumber(s, i) ==
    LET neg == CharAt(s, i) = 45
        j == IF neg THEN i + 1 ELSE i
        r == IF CharAt(s, j) = 48 THEN Done(PyInt(0), j + 1) ELSE ScanDigits(s, j, 0)
    IN  IF ~IsDigit(CharAt(s, j)) THEN Fail
        ELSE IF neg THEN Done(PyInt(0 - r.val.v), r.pos) ELSE r

RECURSIVE scan_once(_, _)
RECURSIVE JSONArray(_, _, _)
RECURSIVE JSONObject(_, _, _)

\* json.decoder.JSONArray: s[i] is the first character of the next element
JSONArray(s, i, acc) ==
    LET v == scan_once(s, i)
    IN  IF ~v.ok THEN Fail
        ELSE LET j == SkipWS(s, v.pos)
                 c == CharAt(s, j)
             IN  IF c = 93 THEN Done(PyList(Append(acc, v.val)), j + 1)
                 ELSE IF c = 44 THEN JSONArray(s, SkipWS(s, j + 1), Append(acc, v.val))
                 ELSE Fail

\* json.decoder.JSONObject: s[i] is the opening quote of the next key
JSONObject(s, i, acc) ==
    IF CharAt(s, i) # 34 THEN Fail
    ELSE LET key == py_scanstring(s, i + 1, <<>>)
         IN  IF ~key.ok THEN Fail
             ELSE LET j == SkipWS(s, key.pos)
                  IN  IF CharAt(s, j) # 58 THEN Fail
                      ELSE LET v == scan_once(s, SkipWS(s, j + 1))
                           IN  IF ~v.ok THEN Fail
                               ELSE LET items == DictPut(acc, key.val.v, v.val)
                                        k == SkipWS(s, v.pos)
                                        c == CharAt(s, k)
                                    IN  IF c = 125 THEN Done(PyDict(items), k + 1)
                                        ELSE IF c = 44
                                        THEN JSONObject(s, SkipWS(s, k + 1), items)
                                        ELSE Fail

\* json.scanner.py_make_scanner._scan_once: the value that starts at s[i]
scan_once(s, i) ==
    LET c == CharAt(s, i)
    IN  IF c = 34 THEN py_scanstring(s, i + 1, <<>>)
        ELSE IF c = 123
        THEN LET j == SkipWS(s, i + 1)
             IN  IF CharAt(s, j) = 125 THEN Done(PyDict(<<>>), j + 1)
                 ELSE JSONObject(s, j, <<>>)
        ELSE IF c = 91
        THEN LET j == SkipWS(s, i + 1)
             IN  IF CharAt(s, j) = 93 THEN Done(PyList(<<>>), j + 1)
                 ELSE JSONArray(s, j, <<>>)
        ELSE IF c = 110 /\ StartsAt(s, i, <<110, 117, 108, 108>>)
        THEN Done(PyNone, i + 4)
        ELSE IF c = 116 /\ StartsAt(s, i, <<116, 114, 117, 101>>)
        THEN Done(PyBool(TRUE), i + 4)
        ELSE IF c = 102 /\ StartsAt(s, i, <<102, 97, 108, 115, 101>>)
        THEN Done(PyBool(FALSE), i + 5)
        ELSE IF IsDigit(c) \/ (c = 45 /\ IsDigit(CharAt(s, i + 1)))
        THEN ScanNumber(s, i)
        ELSE IF c = 78 /\ StartsAt(s, i, <<78, 97, 78>>)
        THEN Done(PyFloatConst(<<78, 97, 78>>), i + 3)
        ELSE IF c = 73 /\ StartsAt(s, i, <<73, 110, 102, 105, 110, 105, 116, 121>>)
        THEN Done(PyFloatConst(<<73, 110, 102, 105, 110, 105, 116, 121>>), i + 8)
        ELSE IF c = 45 /\ StartsAt(s, i, <<45, 73, 110, 102, 105, 110, 105, 116, 121>>)
        THEN Done(PyFloatConst(<<45, 73, 110, 102, 105, 110, 105, 116, 121>>), i + 9)
        ELSE Fail

\* json.loads(text): [ok, val]; the value must be all of the text but whitespace
json_loads(text) ==
    IF CharAt(text, 1) = 65279 THEN [ok |-> FALSE, val |-> PyNone]
    ELSE LET r == scan_once(text, SkipWS(text, 1))
         IN  IF r.ok /\ SkipWS(text, r.pos) = Len(text) + 1
             THEN [ok |-> TRUE, val |-> r.val]
             ELSE [ok |-> FALSE, val |-> PyNone]

\* with open(history_file, 'r', encoding='utf-8') as f: json.load(f)
\* [raised, exc, val]
json_load(bytes) ==
    LET text == Utf8Decode(bytes)
    IN  IF ~text.ok
        THEN [raised |-> TRUE, exc |-> "UnicodeDecodeError", val |-> PyNone]
        ELSE LET r == json_loads(text.text)
             IN  IF r.ok THEN [raised |-> FALSE, exc |-> "", val |-> r.val]
                 ELSE [raised |-> TRUE, exc |-> "JSONDecodeError", val |-> PyNone]

(***************************************************************************)
(* InstagramContentGenerator: the history file.                            *)
(***************************************************************************)

\* "timestamp", "topic", "content"
K_timestamp == <<116, 105, 109, 101, 115, 116, 97, 109, 112>>
K_topic == <<116, 111, 112, 105, 99>>
K_content == <<99, 111, 110, 116, 101, 110, 116>>

RECURSIVE ZeroPad(_, _)
\* format(n, '0<width>d')
ZeroPad(n, width) ==
    IF width = 0 THEN <<>> ELSE ZeroPad(n \div 10, width - 1) \o <<48 + (n % 10)>>

\* datetime.isoformat() of a time [second, microsecond] of 2026-11-06, 11:53:
\* "2026-11-06T11:53:SS", then ".ffffff" unless the microsecond is 0
isoformat(now) ==
    <<50, 48, 50, 54, 45, 49, 49, 45, 48, 54, 84, 49, 49, 58, 53, 51, 58>>
    \o ZeroPad(now.second, 2)
    \o (IF now.microsecond = 0 THEN <<>> ELSE <<46>> \o ZeroPad(now.microsecond, 6))

AbsentFile == [exists |-> FALSE, bytes |-> <<>>]
FileOf(bytes) == [exists |-> TRUE, bytes |-> bytes]

\* the entry _save_content_history appends
HistoryEntry(topic, content, now) ==
    PyDict(<< Item(K_timestamp, PyStr(isoformat(now))),
              Item(K_topic, PyStr(topic)),
              Item(K_content, content) >>)

Returned(f, val) == [raised |-> FALSE, exc |-> "", val |-> val, file |-> f]
Raised(f, exc) == [raised |-> TRUE, exc |-> exc, val |-> PyNone, file |-> f]

\* if history_file.exists(): json.load(f)  else: []      [raised, exc, val]
LoadHistory(f) ==
    IF f.exists THEN json_load(f.bytes)
    ELSE [raised |-> FALSE, exc |-> "", val |-> PyList(<<>>)]

\* a mutant of AppendAndDump: the new entry is put first
AppendAndDumpPrepend(f, history, entry) ==
    IF history.raised THEN Raised(f, history.exc)
    ELSE IF history.val.t # "list" THEN Raised(f, "AttributeError")
    ELSE Returned(FileOf(json_dump(PyList(<<entry>> \o history.val.v))), PyNone)

\* a mutant of AppendAndDump: the file is opened for writing before the load
\* is looked at, so a load that failed leaves the file empty
AppendAndDumpTruncates(f, history, entry) ==
    IF history.raised THEN Raised(FileOf(<<>>), history.exc)
    ELSE IF history.val.t # "list" THEN Raised(FileOf(<<>>), "AttributeError")
    ELSE Returned(FileOf(json_dump(PyList(Append(history.val.v, entry)))), PyNone)

\* _save_content_history once the history is loaded: history.append(entry), then
\* open(history_file, 'w') and json.dump.  A load that raised raises on, a
\* loaded value that is no list has no append; both happen before the file is
\* opened for writing.
AppendAndDump(f, history, entry) ==
    IF history.raised THEN Raised(f, history.exc)
    ELSE IF history.val.t # "list" THEN Raised(f, "AttributeError")
    ELSE Returned(FileOf(json_dump(PyList(Append(history.val.v, entry)))), PyNone)

\* _save_content_history(topic, content) on the file f at time now:
\* [raised, exc, val, file]
_save_content_history(f, topic, content, now) ==
    AppendAndDump(f, LoadHistory(f), HistoryEntry(topic, content, now))

\* return json.load(f), or the error it raises
ReturnLoaded(f, r) == IF r.raised THEN Raised(f, r.exc) ELSE Returned(f, r.val)

\* a mutant of get_content_history: a missing file is created empty
GetContentHistoryCreates(f) ==
    IF f.exists THEN ReturnLoaded(f, json_load(f.bytes))
    ELSE Returned(FileOf(json_dump(PyList(<<>>))), PyList(<<>>))

\* a mutant of get_content_history: a file that cannot be decoded reads as []
GetContentHistoryLenient(f) ==
    IF f.exists /\ ~json_load(f.bytes).raised
    THEN ReturnLoaded(f, json_load(f.bytes))
    ELSE Returned(f, PyList(<<>>))

\* get_content_history() on the file f: [raised, exc, val, file]
get_content_history(f) ==
    IF f.exists THEN ReturnLoaded(f, json_load(f.bytes))
    ELSE Returned(f, PyList(<<>>))

\* the dict generate_content returns, unless the save raised
ReturnContent(f, topic, response, now, saved) ==
    IF saved.raised THEN Raised(saved.file, saved.exc)
    ELSE Returned(saved.file,
             PyDict(<< Item(K_topic, PyStr(topic)),
                       Item(K_timestamp, PyStr(isoformat(now))),
                       Item(K_content, response) >>))

\* a mutant of generate_content: a failure of the team is caught, the history
\* is saved with no content and the dict is returned
GenerateContentSwallow(f, topic, save_to_file, reply, now) ==
    ReturnContent(f, topic, IF reply.raised THEN PyNone ELSE reply.response, now,
        IF save_to_file
        THEN _save_content_history(f, topic,
                 IF reply.raised THEN PyNone ELSE reply.response, now)
        ELSE Returned(f, PyNone))

\* generate_content(topic, save_to_file) on the file f: [raised, exc, val, file].
\* reply is what self.content_team.print_response(topic) does in this call: it
\* returns a response or raises; now is what datetime.now() reads.
generate_content(f, topic, save_to_file, reply, now) ==
    IF reply.raised THEN Raised(f, reply.exc)
    ELSE ReturnContent(f, topic, reply.response, now,
             IF save_to_file
             THEN _save_content_history(f, topic, reply.response, now)
             ELSE Returned(f, PyNone))

\* the dict process_prompt returns, unless generate_content raised
ReturnProcessed(f, prompt, parsed_instruction, result) ==
    IF result.raised THEN Raised(result.file, result.exc)
    ELSE Returned(result.file,
             [ original_prompt    |-> prompt,
               parsed_instruction |-> parsed_instruction,
               generated_content  |-> result.val ])

\* process_prompt once the prompt is parsed
GenerateParsed(f, prompt, parsed_instruction, reply, now) ==
    ReturnProcessed(f, prompt, parsed_instruction,
        generate_content(f, parsed_instruction.topic, parsed_instruction.save_file,
                         reply, now))

\* process_prompt(prompt) on the file f: [raised, exc, val, file]; val holds
\* original_prompt, parsed_instruction and generated_content
process_prompt(f, prompt, reply, now) ==
    GenerateParsed(f, prompt, _parse_instruction(prompt), reply, now)

(***************************************************************************)
(* The inputs explored.                                                    *)
(***************************************************************************)

\* topics handed to generate_content directly (the tests, menu entry 2):
\* "Wine 1", "Wine 2", "Wine 3", "Château Margaux 2015 (€€€)"
Topics ==
    { <<87, 105, 110, 101, 32, 49>>,
      <<87, 105, 110, 101, 32, 50>>,
      <<87, 105, 110, 101, 32, 51>>,
      <<67, 104, 226, 116, 101, 97, 117, 32, 77, 97, 114, 103, 97, 117, 120, 32,
        50, 48, 49, 53, 32, 40, 8364, 8364, 8364, 41>> }

\* what content_team.print_response does: it returns the text
\* '- Post\n"Santé" \o/', or it raises Exception
TeamReplies ==
    { [raised |-> FALSE, exc |-> "",
       response |-> PyStr(<<45, 32, 80, 111, 115, 116, 10, 34, 83, 97, 110, 116,
                            233, 34, 32, 92, 111, 47>>)],
      [raised |-> TRUE, exc |-> "Exception", response |-> PyNone] }

\* what datetime.now() reads
Instants == { [second |-> 7, microsecond |-> 1234] }

\* the prompts handed to process_prompt:
\*   "Create a fun and casual post about Italian Chianti wine with a call to action"
\*   "Write about Merlot, don't save"
\*   "Generate Instagram content"
\*   "Rosé in brief, NO SAVE"
\*   ""
Prompts ==
    { <<67, 114, 101, 97, 116, 101, 32, 97, 32, 102, 117, 110, 32, 97, 110, 100,
        32, 99, 97, 115, 117, 97, 108, 32, 112, 111, 115, 116, 32, 97, 98, 111,
        117, 116, 32, 73, 116, 97, 108, 105, 97, 110, 32, 67, 104, 105, 97, 110,
        116, 105, 32, 119, 105, 110, 101, 32, 119, 105, 116, 104, 32, 97, 32, 99,
        97, 108, 108, 32, 116, 111, 32, 97, 99, 116, 105, 111, 110>>,
      <<87, 114, 105, 116, 101, 32, 97, 98, 111, 117, 116, 32, 77, 101, 114, 108,
        111, 116, 44, 32, 100, 111, 110, 39, 116, 32, 115, 97, 118, 101>>,
      <<71, 101, 110, 101, 114, 97, 116, 101, 32, 73, 110, 115, 116, 97, 103, 114,
        97, 109, 32, 99, 111, 110, 116, 101, 110, 116>>,
      <<82, 111, 115, 233, 32, 105, 110, 32, 98, 114, 105, 101, 102, 44, 32, 78,
        79, 32, 83, 65, 86, 69>>,
      <<>> }

\* the history file the program may find when it starts:
\*   no file
\*   []
\*   [{"topic": "Rosé"}]
\*   not json
\*   an empty file
\*   [{"topic":"é"}] in Latin-1, which is no UTF-8
\*   {}
\*   NaN
InitialFiles ==
    { AbsentFile,
      FileOf(<<91, 93>>),
      FileOf(<<91, 123, 34, 116, 111, 112, 105, 99, 34, 58, 32, 34, 82, 111, 115,
               92, 117, 48, 48, 101, 57, 34, 125, 93>>),
      FileOf(<<110, 111, 116, 32, 106, 115, 111, 110>>),
      FileOf(<<>>),
      FileOf(<<91, 123, 34, 116, 111, 112, 105, 99, 34, 58, 34, 233, 34, 125, 93>>),
      FileOf(<<123, 125>>),
      FileOf(<<78, 97, 78>>) }

\* the pieces instructions are put together from:
\* "Create", "POST", "fun", "Casual,", "Chianti", "#story", "Quick", "NO SAVE"
Chunks ==
    { <<67, 114, 101, 97, 116, 101>>,
      <<80, 79, 83, 84>>,
      <<102, 117, 110>>,
      <<67, 97, 115, 117, 97, 108, 44>>,
      <<67, 104, 105, 97, 110, 116, 105>>,
      <<35, 115, 116, 111, 114, 121>>,
      <<81, 117, 105, 99, 107>>,
      <<78, 79, 32, 83, 65, 86, 69>> }

\* the whitespace between two pieces: " ", "\n\t "
Separators == { <<32>>, <<10, 9, 32>> }

RECURSIVE Texts(_)
\* the texts of at most n pieces
Texts(n) ==
    IF n = 0 THEN { <<>> }
    ELSE LET shorter == Texts(n - 1)
         IN  shorter \cup
             { IF t = <<>> THEN c ELSE t \o sep \o c :
                   t \in shorter, sep \in Separators, c \in Chunks }

\* the instructions handed to _parse_instruction: the texts, and the shorter
\* ones once more between a leading "\n  " and a trailing " \n"
Instructions ==
    Texts(MaxWords) \cup { <<10, 32, 32>> \o t \o <<32, 10>> : t \in Texts(MaxWords - 1) }

(***************************************************************************)
(* The program as a state machine.                                         *)
(***************************************************************************)
\* the processes that may run _save_content_history side by side
Procs == {"p", "q"}

\* no call of _save_content_history is running; exc is what the last one raised
IdleCall == [pc |-> "idle", topic |-> <<>>, history |-> PyNone, exc |-> ""]

NoCalls == [p \in Procs |-> IdleCall]

NotParsed ==
    [done |-> FALSE, topic |-> <<>>, style |-> "", requirements |-> <<>>,
     save_file |-> FALSE]

NoReply == [raised |-> FALSE, exc |-> "", response |-> PyNone]

NoOutcome ==
    [op |-> "", arg |-> <<>>, reply |-> NoReply, raised |-> FALSE, exc |-> "",
     val |-> PyNone]

Outcome(op, arg, reply, r) ==
    [op |-> op, arg |-> arg, reply |-> reply, raised |-> r.raised, exc |-> r.exc,
     val |-> r.val]

Init ==
    /\ file \in InitialFiles
    /\ origin = file
    /\ outcome = NoOutcome
    /\ input = <<>>
    /\ parsed = NotParsed
    /\ session_context = <<>>
    /\ appended = <<>>
    /\ calls = NoCalls

\* the call op(arg) ends with r: the file is what it left, the outcome is what it
\* returned or raised, and a completed append is recorded
Finish(op, arg, reply, r, saves, topic) ==
    /\ file' = r.file
    /\ outcome' = Outcome(op, arg, reply, r)
    /\ appended' = IF saves /\ ~r.raised
                   THEN Append(appended, [topic |-> topic, content |-> reply.response])
                   ELSE appended

\* a caller runs generate_content(topic); save_to_file keeps its default, True
GenerateContent ==
    /\ Len(appended) < MaxAppends
    /\ \E topic \in Topics, reply \in TeamReplies, now \in Instants :
           Finish("generate_content", topic, reply,
                  generate_content(file, topic, TRUE, reply, now), TRUE, topic)
    /\ UNCHANGED <<input, parsed, session_context, origin, calls>>

\* the end of process_prompt(prompt), whose prompt parses to p
FinishPrompt(prompt, p, reply, now) ==
    Finish("process_prompt", prompt, reply, process_prompt(file, prompt, reply, now),
           p.save_file, p.topic)

\* a caller runs process_prompt(prompt)
ProcessPrompt ==
    /\ Len(appended) < MaxAppends
    /\ \E prompt \in Prompts, reply \in TeamReplies, now \in Instants :
           FinishPrompt(prompt, _parse_instruction(prompt), reply, now)
    /\ UNCHANGED <<input, parsed, session_context, origin, calls>>

\* a caller runs get_content_history()
GetContentHistory ==
    /\ Finish("get_content_history", <<>>, NoReply, get_content_history(file),
              FALSE, <<>>)
    /\ UNCHANGED <<input, parsed, session_context, origin, calls>>

\* the generator used directly
Next == GenerateContent \/ GetContentHistory

Spec == Init /\ [][Next]_vars

\* the generator used through the prompt interface
NextPrompt == ProcessPrompt \/ GetContentHistory

SpecPrompt == Init /\ [][NextPrompt]_vars

(***************************************************************************)
(* The parser alone, on every instruction of Instructions.                 *)
(***************************************************************************)
InitParse ==
    /\ input \in Instructions
    /\ parsed = NotParsed
    /\ file = AbsentFile
    /\ origin = AbsentFile
    /\ outcome = NoOutcome
    /\ session_context = <<>>
    /\ appended = <<>>
    /\ calls = NoCalls

\* _parse_instruction(input) returns
ParseInstruction ==
    /\ ~parsed.done
    /\ parsed' = [done |-> TRUE] @@ _parse_instruction(input)
    /\ UNCHANGED <<file, outcome, input, session_context, appended, origin, calls>>

NextParse == ParseInstruction

SpecParse == InitParse /\ [][NextParse]_vars

(***************************************************************************)
(* _save_content_history run by several processes on one history file.     *)
(* A call takes three steps that other calls may come between: it loads    *)
(* the history and appends its entry in memory (lines 191-202), it opens   *)
(* the file for writing, which empties it (line 205), and it dumps the     *)
(* list and closes the file (line 206), which writes the text from the     *)
(* start of the file over whatever the file holds by then.                 *)
(***************************************************************************)

\* the topics of the calls run side by side: "Wine 1", "Wine 2"
SaveTopics == { <<87, 105, 110, 101, 32, 49>>, <<87, 105, 110, 101, 32, 50>> }

\* the content they save: "- Post"
SaveContent == PyStr(<<45, 32, 80, 111, 115, 116>>)

\* the calls that have begun and not yet returned
Running == { p \in Procs : calls[p].pc # "idle" }

\* a file opened with 'w' and not truncated again is written from its start
WriteFromStart(bytes, text) ==
    text \o SubSeq(bytes, Len(text) + 1, Len(bytes))

\* the call of p ends at the load: r is what AppendAndDump makes of the load
LoadEnds(p, topic, history, r) ==
    calls' = [calls EXCEPT ![p] =
                 IF r.raised
                 THEN [IdleCall EXCEPT !.exc = r.exc]
                 ELSE [pc |-> "loaded", topic |-> topic, history |-> history,
                       exc |-> ""]]

\* p calls _save_content_history(topic, content): lines 188-202
SaveLoad(p) ==
    /\ calls[p].pc = "idle"
    /\ Len(appended) + Cardinality(Running) < MaxAppends
    /\ \E topic \in SaveTopics, now \in Instants :
           \E history \in {LoadHistory(file)} :
               LoadEnds(p, topic, history,
                        AppendAndDump(file, history,
                                      HistoryEntry(topic, SaveContent, now)))
    /\ UNCHANGED <<file, outcome, input, parsed, session_context, appended, origin>>

\* p opens the history file for writing: line 205
SaveOpen(p) ==
    /\ calls[p].pc = "loaded"
    /\ file' = FileOf(<<>>)
    /\ calls' = [calls EXCEPT ![p].pc = "opened"]
    /\ UNCHANGED <<outcome, input, parsed, session_context, appended, origin>>

\* the dump of p and the close of its file: r is what AppendAndDump returns
DumpEnds(p, r) ==
    /\ file' = FileOf(WriteFromStart(file.bytes, r.file.bytes))
    /\ calls' = [calls EXCEPT ![p] = IdleCall]
    /\ appended' = Append(appended,
                          [topic |-> calls[p].topic, content |-> SaveContent])

\* p dumps its list and returns: line 206
SaveDump(p) ==
    /\ calls[p].pc = "opened"
    /\ \E now \in Instants :
           DumpEnds(p, AppendAndDump(file, calls[p].history,
                                     HistoryEntry(calls[p].topic, SaveContent, now)))
    /\ UNCHANGED <<outcome, input, parsed, session_context, origin>>

NextConcurrent == \E p \in Procs : SaveLoad(p) \/ SaveOpen(p) \/ SaveDump(p)

SpecConcurrent == Init /\ [][NextConcurrent]_vars

(***************************************************************************)
(* process_prompt(input) in its two steps, the parse (line 261) and the    *)
(* generation (lines 264-272), with further calls of _parse_instruction    *)
(* between and after them.                                                  *)
(***************************************************************************)
InitSession ==
    /\ input \in Prompts
    /\ file \in InitialFiles
    /\ origin = file
    /\ outcome = NoOutcome
    /\ parsed = NotParsed
    /\ session_context = <<>>
    /\ appended = <<>>
    /\ calls = NoCalls

\* the dict _parse_instruction returned, as `parsed` holds it
ParsedInstruction(p) ==
    [topic |-> p.topic, style |-> p.style, requirements |-> p.requirements,
     save_file |-> p.save_file]

\* the end of the generation for the parsed instruction p
FinishParsed(p, reply, now) ==
    Finish("process_prompt", input, reply,
           GenerateParsed(file, input, p, reply, now), p.save_file, p.topic)

\* process_prompt goes on from the parsed instruction: lines 264-272
GenerateInput ==
    /\ parsed.done
    /\ Len(appended) < MaxAppends
    /\ \E reply \in TeamReplies, now \in Instants :
           FinishParsed(ParsedInstruction(parsed), reply, now)
    /\ UNCHANGED <<input, parsed, session_context, origin, calls>>

\* a further call _parse_instruction(prompt); it assigns nothing but its locals
ParseAgain ==
    /\ parsed.done
    /\ \E prompt \in Prompts :
           outcome' = Outcome("_parse_instruction", prompt, NoReply,
                              Returned(file, _parse_instruction(prompt)))
    /\ UNCHANGED <<file, input, parsed, session_context, appended, origin, calls>>

NextSession == ParseInstruction \/ GenerateInput \/ ParseAgain

SpecSession == InitSession /\ [][NextSession]_vars

(***************************************************************************)
(* What the claims speak of.                                               *)
(***************************************************************************)

\* the entries stored in the file f, none when there is no file
Stored(f) == LoadHistory(f).val.v

\* old and new are what json.load finds in the file before and after a step:
\* new is the list old with one entry more at its end
ExtendsByOne(old, new) ==
    /\ ~old.raised /\ old.val.t = "list"
    /\ ~new.raised /\ new.val.t = "list"
    /\ Len(new.val.v) = Len(old.val.v) + 1
    /\ SubSeq(new.val.v, 1, Len(old.val.v)) = old.val.v

\* the last entry of the list that json.load found
LastOf(loaded) == loaded.val.v[Len(loaded.val.v)]

\* e is an entry with exactly the fields timestamp, topic and content, holding
\* the given topic and content and one of the timestamps isoformat writes
IsEntryOf(e, topic, content) ==
    /\ e.t = "dict"
    /\ Len(e.v) = 3
    /\ DictHas(e, K_timestamp) /\ DictHas(e, K_topic) /\ DictHas(e, K_content)
    /\ DictGet(e, K_topic) = PyStr(topic)
    /\ DictGet(e, K_content) = content
    /\ \E now \in Instants : DictGet(e, K_timestamp) = PyStr(isoformat(now))

\* "Wine 1", "Wine 2", "Wine 3"
Wine1 == <<87, 105, 110, 101, 32, 49>>
Wine2 == <<87, 105, 110, 101, 32, 50>>
Wine3 == <<87, 105, 110, 101, 32, 51>>
\* "Château Margaux 2015 (€€€)"
Chateau ==
    <<67, 104, 226, 116, 101, 97, 117, 32, 77, 97, 114, 103, 97, 117, 120, 32,
      50, 48, 49, 53, 32, 40, 8364, 8364, 8364, 41>>

(***************************************************************************)
(* C1: started without a history file, after any run of completed appends  *)
(* the file holds exactly the appended entries, in the order of the        *)
(* appends; and every completed append adds one entry at the end of what   *)
(* was stored and changes no earlier entry.                                *)
(***************************************************************************)
\* get_content_history returned or would return r: the appended entries, in order
ReadsAppended(r) ==
    /\ ~r.raised
    /\ r.val.t = "list"
    /\ Len(r.val.v) = Len(appended)
    /\ \A i \in 1..Len(appended) :
           IsEntryOf(r.val.v[i], appended[i].topic, appended[i].content)

C1_StoredIsAppended ==
    origin = AbsentFile =>
        \A r \in {get_content_history(file)} : ReadsAppended(r)

C1_AppendAtEnd ==
    (origin = AbsentFile /\ Len(appended') = Len(appended) + 1) =>
        \A old \in {LoadHistory(file)}, new \in {LoadHistory(file')} :
            ExtendsByOne(old, new)

C1_SequentialAppends == [](C1_StoredIsAppended) /\ [][C1_AppendAtEnd]_vars

\* three appends, "Wine 1", "Wine 2", "Wine 3", then a read that returns three
\* entries in that order
C1_Witness ==
    /\ origin = AbsentFile
    /\ Len(appended) = 3
    /\ appended[1].topic = Wine1 /\ appended[2].topic = Wine2
    /\ appended[3].topic = Wine3
    /\ outcome.op = "get_content_history" /\ ~outcome.raised
    /\ Len(outcome.val.v) = 3
    /\ DictGet(outcome.val.v[1], K_topic) = PyStr(Wine1)
    /\ DictGet(outcome.val.v[3], K_topic) = PyStr(Wine3)

(***************************************************************************)
(* C2: on a store with no entries (no file, or a file holding []), one     *)
(* append of (t, c) followed by a read returns exactly one entry, whose     *)
(* topic is t and whose content is c, character for character, with a     *)
(* timestamp.                                                              *)
(***************************************************************************)
C2_RoundTrip ==
    ( /\ origin \in {AbsentFile, FileOf(<<91, 93>>)}
      /\ Len(appended) = 1
      /\ outcome.op = "get_content_history" ) =>
        /\ ~outcome.raised
        /\ outcome.val.t = "list"
        /\ Len(outcome.val.v) = 1
        /\ IsEntryOf(outcome.val.v[1], appended[1].topic, appended[1].content)

\* the topic "Château Margaux 2015 (€€€)" and a content with quotes, a newline,
\* a backslash and an é were appended and read back
C2_Witness ==
    /\ origin = AbsentFile
    /\ Len(appended) = 1
    /\ appended[1].topic = Chateau
    /\ appended[1].content.t = "str"
    /\ outcome.op = "get_content_history"
    /\ ~outcome.raised
    /\ DictGet(outcome.val.v[1], K_topic) = PyStr(Chateau)

(***************************************************************************)
(* C3: the topic parsed from a non-empty instruction is a non-empty        *)
(* string, also when every word of the instruction is an instruction word. *)
(***************************************************************************)
C3_TopicNonEmpty ==
    (parsed.done /\ input # <<>>) => parsed.topic # <<>>

\* an instruction of instruction words only, "Create POST", was parsed
C3_Witness ==
    /\ parsed.done
    /\ input = <<67, 114, 101, 97, 116, 101, 32, 80, 79, 83, 84>>
    /\ parsed.topic = input

(***************************************************************************)
(* C4: when the content team raises inside generate_content, the caller    *)
(* gets that very error and the history file is left as it was: no entry   *)
(* is appended.                                                            *)
(***************************************************************************)
C4_Step ==
    (outcome'.op = "generate_content" /\ outcome'.reply.raised) =>
        /\ outcome'.raised
        /\ outcome'.exc = outcome'.reply.exc
        /\ file' = file
        /\ appended' = appended

C4_ServiceErrorPropagates == [][C4_Step]_vars

\* the team raised on a store that already held an entry
C4_Witness ==
    /\ outcome.op = "generate_content"
    /\ outcome.reply.raised
    /\ outcome.raised
    /\ outcome.exc = "Exception"
    /\ file.exists
    /\ Len(appended) = 1
    /\ Len(Stored(file)) = 1

(***************************************************************************)
(* C5: get_content_history with no history file returns the empty list,    *)
(* raises nothing and creates no file.                                     *)
(***************************************************************************)
C5_Step ==
    (outcome'.op = "get_content_history" /\ ~file.exists) =>
        /\ ~outcome'.raised
        /\ outcome'.val = PyList(<<>>)
        /\ file' = file

C5_ReadMissing == [][C5_Step]_vars

\* a read returned [] and there is still no file
C5_Witness ==
    /\ outcome.op = "get_content_history"
    /\ ~outcome.raised
    /\ outcome.val = PyList(<<>>)
    /\ ~file.exists

(***************************************************************************)
(* C6: get_content_history on a file that exists but that json.load cannot *)
(* decode raises the decoder's own error to the caller, JSONDecodeError     *)
(* for text that is no JSON and UnicodeDecodeError for bytes that are no    *)
(* UTF-8, returns nothing and leaves the file as it is.                     *)
(***************************************************************************)
\* "not json"
NotJsonBytes == <<110, 111, 116, 32, 106, 115, 111, 110>>
\* [{"topic":"é"}] in Latin-1
Latin1Bytes == <<91, 123, 34, 116, 111, 112, 105, 99, 34, 58, 34, 233, 34, 125, 93>>

\* the error json.load raises on each of the undecodable files
DecoderError(bytes) ==
    CASE bytes = NotJsonBytes -> "JSONDecodeError"
      [] bytes = <<>> -> "JSONDecodeError"
      [] bytes = Latin1Bytes -> "UnicodeDecodeError"
      [] OTHER -> ""

Undecodable(f) == f.exists /\ DecoderError(f.bytes) # ""

C6_Step ==
    (outcome'.op = "get_content_history" /\ Undecodable(file)) =>
        /\ outcome'.raised
        /\ outcome'.exc = DecoderError(file.bytes)
        /\ outcome'.val = PyNone
        /\ file' = file

StyleOrder == <<"casual", "professional", "fun", "elegant", "educational">>

StyleMatches(k, text) ==
    \E j \in 1..Len(style_keywords[k].keywords) :
        In(style_keywords[k].keywords[j], Lower(text))

TagOrder ==
    <<"no_emojis", "include_cta", "short_format", "long_format", "hashtags",
      "story_format">>

TagMatches(k, text) ==
    \E j \in 1..Len(requirement_patterns[k].patterns) :
        In(requirement_patterns[k].patterns[j], Lower(text))

TokenStarts(s) ==
    { a \in 1..Len(s) : ~IsSpace(s[a]) /\ (a = 1 \/ IsSpace(s[a - 1])) }

TokenEnds(s) ==
    { b \in 1..Len(s) : ~IsSpace(s[b]) /\ (b = Len(s) \/ IsSpace(s[b + 1])) }

\* the run that starts at a
TokenAt(s, a) ==
    SubSeq(s, a, CHOOSE b \in TokenEnds(s) :
                     b >= a /\ \A e \in TokenEnds(s) : e >= a => b <= e)

IsStopWord(w) ==
    \E j \in 1..Len(instruction_words) : instruction_words[j] = Lower(w)

\* the starts of the runs that are kept
Survivors(s) == { a \in TokenStarts(s) : ~IsStopWord(TokenAt(s, a)) }

RECURSIVE SpacedRuns(_, _)
\* the runs starting at the positions of S, leftmost first, one space between
SpacedRuns(s, S) ==
    IF S = {} THEN <<>>
    ELSE LET a == CHOOSE x \in S : \A y \in S : x <= y
         IN  IF S = {a} THEN TokenAt(s, a)
             ELSE TokenAt(s, a) \o <<32>> \o SpacedRuns(s, S \ {a})

C9_TopicExtraction ==
    /\ Len(instruction_words) = 13
    /\ parsed.done =>
           IF Survivors(input) = {} THEN parsed.topic = input
           ELSE parsed.topic = SpacedRuns(input, Survivors(input))

\* "POST Chianti\n\t #story": POST is dropped, the two other runs are kept
\* with one space between them
C9_Witness ==
    /\ parsed.done
    /\ input = <<80, 79, 83, 84, 32, 67, 104, 105, 97, 110, 116, 105, 10, 9, 32,
                 35, 115, 116, 111, 114, 121>>
    /\ parsed.topic = <<67, 104, 105, 97, 110, 116, 105, 32, 35, 115, 116, 111,
                        114, 121>>

(***************************************************************************)
(* C10: the save flag of the parsed instruction is true unless the         *)
(* lower-cased instruction holds "no save" or "don't save".  With a false  *)
(* flag process_prompt returns the generated content and leaves the        *)
(* history file as it is; with a true flag a process_prompt that returns   *)
(* has appended exactly one entry to the history.                          *)
(***************************************************************************)
SaveFlag(text) == ~In(NoSave, Lower(text)) /\ ~In(DontSave, Lower(text))

\* the step from old to new appended one entry, which holds topic and content
SavedOne(old, new, topic, content) ==
    /\ ExtendsByOne(old, new)
    /\ IsEntryOf(LastOf(new), topic, content)

C10_Step ==
    outcome'.op = "process_prompt" =>
        /\ ~outcome'.raised =>
               /\ outcome'.val.parsed_instruction.save_file = SaveFlag(outcome'.arg)
               /\ DictGet(outcome'.val.generated_content, K_content)
                      = outcome'.reply.response
        /\ ~SaveFlag(outcome'.arg) =>
               /\ file' = file
               /\ outcome'.raised = outcome'.reply.raised
        /\ (SaveFlag(outcome'.arg) /\ ~outcome'.raised) =>
               \A old \in {LoadHistory(file)}, new \in {LoadHistory(file')} :
                   SavedOne(old, new, outcome'.val.parsed_instruction.topic,
                            outcome'.reply.response)

C10_SaveFlag == [][C10_Step]_vars

\* "Rosé in brief, NO SAVE" was processed on a history of one entry: content
\* was returned, the flag is false and the history still holds one entry
C10_Witness ==
    /\ outcome.op = "process_prompt"
    /\ ~outcome.raised
    /\ In(<<78, 79, 32, 83, 65, 86, 69>>, outcome.arg)
    /\ ~outcome.val.parsed_instruction.save_file
    /\ outcome.val.generated_content.t = "dict"
    /\ Len(appended) = 1
    /\ Len(Stored(file)) = 1

(***************************************************************************)
(* C11: process_prompt with an empty prompt raises ValueError; the empty   *)
(* prompt is not handed on as a topic to the content team.                 *)
(***************************************************************************)
C11_EmptyPromptRejected ==
    (outcome.op = "process_prompt" /\ outcome.arg = <<>>) =>
        (outcome.raised /\ outcome.exc = "ValueError")

\* process_prompt("") returned: the empty topic went to the team and its
\* content is stored in the history under the topic ""
C11_Witness ==
    /\ outcome.op = "process_prompt"
    /\ outcome.arg = <<>>
    /\ ~outcome.raised
    /\ outcome.val.parsed_instruction.topic = <<>>
    /\ DictGet(outcome.val.generated_content, K_topic) = PyStr(<<>>)
    /\ Len(appended) >= 1
    /\ appended[Len(appended)].topic = <<>>

(***************************************************************************)
(* C12: appends run side by side are not kept apart.  A call dumps the     *)
(* list it loaded plus its own entry, whatever other calls have written    *)
(* since it loaded: the text it writes starts the file, and when the file  *)
(* is still empty from the open the file then holds that list and nothing  *)
(* else.  So two calls that both load before either dumps leave only the   *)
(* last writer's entry: fewer entries stored than appends completed.       *)
(***************************************************************************)
\* the list the call of p dumps: what it loaded and its entry at the end
DumpedBy(p) ==
    Append(calls[p].history.val.v,
           HistoryEntry(calls[p].topic, SaveContent,
                        CHOOSE now \in Instants : TRUE))

C12_Dump(p) ==
    (calls[p].pc = "opened" /\ calls'[p].pc = "idle") =>
        \A text \in {json_dump(PyList(DumpedBy(p)))} :
            /\ Len(file'.bytes) >= Len(text)
            /\ SubSeq(file'.bytes, 1, Len(text)) = text
            /\ file.bytes = <<>> =>
                   \A new \in {LoadHistory(file')} :
                       ~new.raised /\ new.val = PyList(DumpedBy(p))

C12_LastWriterWins == [][\A p \in Procs : C12_Dump(p)]_vars

\* started without a file, two appends of different topics have returned
\* and the file holds one entry, that of the second to dump
C12_Witness ==
    /\ origin = AbsentFile
    /\ Running = {}
    /\ Len(appended) = 2
    /\ appended[1].topic # appended[2].topic
    /\ \A stored \in {LoadHistory(file)} :
           /\ ~stored.raised
           /\ stored.val.t = "list"
           /\ Len(stored.val.v) = 1
           /\ IsEntryOf(stored.val.v[1], appended[2].topic, SaveContent)

(***************************************************************************)
(* C13: the history file is absent or present.  An append that completes   *)
(* on an absent file makes it present and nothing else does; a read        *)
(* leaves it absent or present as it was; a present file never becomes     *)
(* absent again.                                                           *)
(***************************************************************************)
C13_Step ==
    /\ file.exists => file'.exists
    /\ outcome'.op = "get_content_history" => file'.exists = file.exists
    /\ (~file.exists /\ Len(appended') = Len(appended) + 1) => file'.exists
    /\ (~file.exists /\ file'.exists) => Len(appended') = Len(appended) + 1

C13_AbsentPresent == [][C13_Step]_vars

\* started absent, the file is present after one append and a read
C13_Witness ==
    /\ origin = AbsentFile
    /\ file.exists
    /\ Len(appended) = 1
    /\ outcome.op = "get_content_history"
    /\ ~outcome.raised
    /\ Len(outcome.val.v) = 1

(***************************************************************************)
(* C14: _parse_instruction is deterministic and pure.  A later call with   *)
(* the text of an earlier one returns the same topic, style, requirements  *)
(* and save flag, whatever has become of the history file in between, and  *)
(* no call changes the history file or the session context.                *)
(***************************************************************************)
C14_SameResult ==
    (parsed.done /\ outcome.op = "_parse_instruction" /\ outcome.arg = input) =>
        outcome.val = ParsedInstruction(parsed)

C14_NoEffect ==
    ( \/ (parsed'.done /\ ~parsed.done)
      \/ (outcome'.op = "_parse_instruction" /\ outcome' # outcome) ) =>
        /\ file' = file
        /\ session_context' = session_context
        /\ appended' = appended

C15_TopicIdempotent ==
    parsed.done => _extract_topic(parsed.topic) = parsed.topic

\* "POST\n\t Create" is its own topic, instruction words and whitespace kept,
\* and extracting from it again returns it again
C15_Witness ==
    /\ parsed.done
    /\ input = <<80, 79, 83, 84, 10, 9, 32, 67, 114, 101, 97, 116, 101>>
    /\ parsed.topic = input
    /\ Survivors(parsed.topic) = {}
    /\ _extract_topic(parsed.topic) = input

(***************************************************************************)
(* C16: "Create a fun and casual post about Italian Chianti wine with a    *)
(* call to action" parses to the topic "a fun and casual Italian Chianti   *)
(* wine with a call to action" (only Create, post and about are removed),  *)
(* the style casual (casual stands before fun in the style table), the     *)
(* requirements include_cta alone, and a true save flag.                   *)
(***************************************************************************)
ExamplePrompt ==
    <<67, 114, 101, 97, 116, 101, 32, 97, 32, 102, 117, 110, 32, 97, 110, 100,
      32, 99, 97, 115, 117, 97, 108, 32, 112, 111, 115, 116, 32, 97, 98, 111,
      117, 116, 32, 73, 116, 97, 108, 105, 97, 110, 32, 67, 104, 105, 97, 110,
      116, 105, 32, 119, 105, 110, 101, 32, 119, 105, 116, 104, 32, 97, 32, 99,
      97, 108, 108, 32, 116, 111, 32, 97, 99, 116, 105, 111, 110>>

\* "Italian Chianti wine with a call to action"
ExampleTail ==
    <<73, 116, 97, 108, 105, 97, 110, 32, 67, 104, 105, 97, 110, 116, 105, 32,
      119, 105, 110, 101, 32, 119, 105, 116, 104, 32, 97, 32, 99, 97, 108, 108,
      32, 116, 111, 32, 97, 99, 116, 105, 111, 110>>

\* "a fun and casual "
ExampleKept == <<97, 32, 102, 117, 110, 32, 97, 110, 100, 32, 99, 97, 115, 117, 97, 108, 32>>

C16_Example ==
    (parsed.done /\ input = ExamplePrompt) =>
        /\ parsed.topic = ExampleKept \o ExampleTail
        /\ parsed.style = "casual"
        /\ parsed.requirements = <<"include_cta">>
        /\ parsed.save_file

\* the claim as stated: the topic starts at Italian and the style is fun
C16_Original ==
    (parsed.done /\ input = ExamplePrompt) =>
        /\ parsed.topic = ExampleTail
        /\ parsed.style = "fun"
        /\ \E i \in 1..Len(parsed.requirements) :
               parsed.requirements[i] = "include_cta"

\* the example was parsed: the keywords of casual and of fun both occur in
\* it, the style is casual, and "a fun and casual" is part of the topic
C16_Witness ==
    /\ parsed.done
    /\ input = ExamplePrompt
    /\ StyleMatches(1, input) /\ StyleMatches(3, input)
    /\ parsed.style = "casual"
    /\ In(ExampleKept, parsed.topic)
    /\ In(ExampleTail, parsed.topic)

(***************************************************************************)
(* C17: get_content_history on a file that holds JSON other than a list of *)
(* objects with timestamp, topic and content raises MalformedStoreError    *)
(* and returns no such data.                                               *)
(***************************************************************************)
\* v is a list of dicts that each hold timestamp, topic and content
IsHistory(v) ==
    /\ v.t = "list"
    /\ \A i \in 1..Len(v.v) :
           /\ v.v[i].t = "dict"
           /\ DictHas(v.v[i], K_timestamp)
           /\ DictHas(v.v[i], K_topic)
           /\ DictHas(v.v[i], K_content)

\* the file holds JSON that is no history
HoldsOtherJson(f) ==
    \E loaded \in {LoadHistory(f)} :
        f.exists /\ ~loaded.raised /\ ~IsHistory(loaded.val)

C17_SchemaChecked ==
    (outcome.op = "get_content_history" /\ HoldsOtherJson(file)) =>
        (outcome.raised /\ outcome.exc = "MalformedStoreError")

\* the file holds [{"topic": "Rosé"}], an entry without timestamp and
\* content, and a read returned that list
C17_Witness ==
    /\ outcome.op = "get_content_history"
    /\ file = origin
    /\ HoldsOtherJson(file)
    /\ ~outcome.raised
    /\ outcome.val.t = "list"
    /\ Len(outcome.val.v) = 1
    /\ ~DictHas(outcome.val.v[1], K_timestamp)
    /\ DictGet(outcome.val.v[1], K_topic) = PyStr(<<82, 111, 115, 233>>)

(***************************************************************************)
(* C18: an append onto a history file that json.load cannot decode raises  *)
(* the decoder's error to the caller and leaves the file as it is, byte    *)
(* for byte; the new entry is not recorded.                                *)
(***************************************************************************)
C18_Step ==
    ( /\ outcome'.op = "generate_content"
      /\ ~outcome'.reply.raised
      /\ Undecodable(file) ) =>
        /\ outcome'.raised
        /\ outcome'.exc = DecoderError(file.bytes)
        /\ file' = file
        /\ appended' = appended

C18_AppendUndecodable == [][C18_Step]_vars

\* the team returned content, the save met the file "not json" and raised
\* JSONDecodeError; the file still holds "not json"
C18_Witness ==
    /\ outcome.op = "generate_content"
    /\ ~outcome.reply.raised
    /\ outcome.raised
    /\ outcome.exc = "JSONDecodeError"
    /\ file = FileOf(NotJsonBytes)
    /\ appended = <<>>

=============================================================================
